---- MODULE Spec2Model ----
(***************************************************************************)
(* bfcache-manager.js: a page-lifecycle shim that closes a WebSocket on    *)
(* 'pagehide' / 'freeze' and (re)connects on 'pageshow' / 'resume'.        *)
(*                                                                         *)
(* The module follows src/js/bfcache-manager.js statement by statement.    *)
(* In that file the construction of the socket (line 42) and its three     *)
(* listeners (lines 44-55) are commented out, so connectWebSocket only     *)
(* logs; the model keeps the code as it is shipped.                        *)
(***************************************************************************)
EXTENDS Integers, Sequences, FiniteSets, TLC

\* Number of lifecycle signals the browser delivers in one explored run.
MaxSignals == 4

\* JavaScript's null (line 23); handle ids are 1, 2, ...
NULL == 0

\* No exception escaped the handler.
NoError == "none"

VARIABLES
    appSocket,   \* line 23: the handle reference, NULL or a handle id
    sockets,     \* WebSocket objects constructed so far: handle id -> readyState
    calls,       \* every Connection call the script issued, in order
    console,     \* console.log output, in order
    uncaught,    \* exception that escaped the handler that ran last
    listeners,   \* addEventListener registrations (lines 126-131)
    history      \* signals delivered so far, with what each handler did

vars == <<appSocket, sockets, calls, console, uncaught, listeners, history>>

----------------------------------------------------------------------------
(* The script's view of the world while one handler runs. *)

Entry ==
    [appSocket |-> appSocket, sockets |-> sockets, calls |-> calls,
     console |-> console, exc |-> NoError]

\* console.log(msg); a statement after a throw is not executed.
Log(s, msg) ==
    IF s.exc # NoError THEN s
    ELSE [s EXCEPT !.console = Append(@, msg)]

\* WebSocket readyState values a handle that was not closed can show.
NotClosed == {"CONNECTING", "OPEN"}

\* Handles constructed by the script that have not received close().
OpenHandles == {h \in DOMAIN sockets : sockets[h] \in NotClosed}

\* appSocket.close() (line 65): a member call on null is a TypeError;
\* on a WebSocket it starts the closing handshake and returns.
CallClose(s) ==
    IF s.exc # NoError THEN s
    ELSE IF s.appSocket = NULL THEN [s EXCEPT !.exc = "TypeError"]
    ELSE [s EXCEPT !.calls = Append(@, [op |-> "close", h |-> s.appSocket]),
                   !.sockets[s.appSocket] = "CLOSING"]

\* appSocket = null (line 66).
ClearRef(s) ==
    IF s.exc # NoError THEN s
    ELSE [s EXCEPT !.appSocket = NULL]

\* appSocket = new WebSocket(WS_URL): what line 42 would do were it code.
NewWebSocket(s) ==
    IF s.exc # NoError THEN s
    ELSE LET h == Len(s.sockets) + 1
         IN  [s EXCEPT !.sockets = Append(@, "CONNECTING"),
                       !.calls = Append(@, [op |-> "new", h |-> h]),
                       !.appSocket = h]

\* connectWebSocket with line 42 live: a socket is constructed whenever
\* the referenced one is missing or not OPEN.
connectWebSocket_create(s) ==
    IF s.appSocket # NULL /\ s.sockets[s.appSocket] = "OPEN"
    THEN Log(s, "WebSocket already open.")
    ELSE NewWebSocket(Log(s, "Connecting WebSocket..."))

\* connectWebSocket (lines 29-56). Lines 41-55 are comments: after the
\* early return nothing but the log statement is executed.
connectWebSocket(s) ==
    IF s.appSocket # NULL /\ s.sockets[s.appSocket] = "OPEN"
    THEN Log(s, "WebSocket already open.")
    ELSE Log(s, "Connecting WebSocket...")

\* closeWebSocket without the null test of line 63.
closeWebSocket_noGuard(s) ==
    ClearRef(CallClose(Log(s, "Closing WebSocket for page suspension...")))

\* closeWebSocket (lines 62-68).
closeWebSocket(s) ==
    IF s.appSocket # NULL
    THEN ClearRef(CallClose(Log(s, "Closing WebSocket for page suspension...")))
    ELSE s

\* onPageShow (lines 76-86).
onPageShow(s, event) ==
    connectWebSocket(
        IF event.persisted
        THEN Log(s, "Page restored from bfcache.")
        ELSE Log(s, "Page loaded normally."))

\* onPageHide that closes only when the page enters the bfcache, calling
\* close() on the reference itself.
onPageHide_persistedOnly(s, event) ==
    IF event.persisted
    THEN ClearRef(CallClose(Log(s, "Page hiding. Persisted: true")))
    ELSE Log(s, "Page hiding. Persisted: false")

\* onPageHide (lines 94-102).
onPageHide(s, event) ==
    closeWebSocket(
        Log(s, IF event.persisted THEN "Page hiding. Persisted: true"
                                  ELSE "Page hiding. Persisted: false"))

\* onFreeze that calls close() on the reference itself.
onFreeze_unguarded(s) ==
    ClearRef(CallClose(Log(s, "Page freezing.")))

\* onFreeze (lines 109-112).
onFreeze(s) ==
    closeWebSocket(Log(s, "Page freezing."))

\* onResume (lines 119-122).
onResume(s) ==
    connectWebSocket(Log(s, "Page resuming."))

----------------------------------------------------------------------------
(* Registration and dispatch. *)

\* The registrations with a 'beforeunload' listener added for the close.
Registered_withUnload ==
    { [target |-> "window",   type |-> "pageshow", handler |-> "onPageShow"],
      [target |-> "window",   type |-> "pagehide", handler |-> "onPageHide"],
      [target |-> "window",   type |-> "beforeunload", handler |-> "onPageHide"],
      [target |-> "document", type |-> "freeze",   handler |-> "onFreeze"],
      [target |-> "document", type |-> "resume",   handler |-> "onResume"] }

\* Lines 126-131: the four addEventListener calls of the script body.
Registered ==
    { [target |-> "window",   type |-> "pageshow", handler |-> "onPageShow"],
      [target |-> "window",   type |-> "pagehide", handler |-> "onPageHide"],
      [target |-> "document", type |-> "freeze",   handler |-> "onFreeze"],
      [target |-> "document", type |-> "resume",   handler |-> "onResume"] }

\* State once the IIFE (lines 18-135) has run.
Init ==
    /\ appSocket = NULL
    /\ sockets = <<>>
    /\ calls = <<>>
    /\ console = <<"Initialized with Page Lifecycle API support.">>
    /\ uncaught = NoError
    /\ listeners = Registered
    /\ history = <<>>

\* Calls a handler added to the sequence of calls.
Issued(r) == SubSeq(r.calls, Len(calls) + 1, Len(r.calls))

\* The browser delivers one event to its registered listener; the listener
\* runs to completion and leaves r.
Deliver(target, type, handler, persisted, r) ==
    /\ Len(history) < MaxSignals
    /\ [target |-> target, type |-> type, handler |-> handler] \in listeners
    /\ appSocket' = r.appSocket
    /\ sockets' = r.sockets
    /\ calls' = r.calls
    /\ console' = r.console
    /\ uncaught' = r.exc
    /\ history' = Append(history,
                         [type |-> type, persisted |-> persisted,
                          before |-> appSocket, after |-> r.appSocket,
                          issued |-> Issued(r), exc |-> r.exc])
    /\ UNCHANGED listeners

PageShow ==
    \E persisted \in BOOLEAN :
        Deliver("window", "pageshow", "onPageShow", persisted,
                onPageShow(Entry, [persisted |-> persisted]))

PageHide ==
    \E persisted \in BOOLEAN :
        Deliver("window", "pagehide", "onPageHide", persisted,
                onPageHide(Entry, [persisted |-> persisted]))

Freeze ==
    Deliver("document", "freeze", "onFreeze", FALSE, onFreeze(Entry))

Resume ==
    Deliver("document", "resume", "onResume", FALSE, onResume(Entry))

Next == PageShow \/ PageHide \/ Freeze \/ Resume

Spec == Init /\ [][Next]_vars

----------------------------------------------------------------------------
(* Observers over the history. *)

\* The signal handled last, "" before the first one.
last == IF history = <<>> THEN "" ELSE history[Len(history)].type

\* Number of calls of one kind in a sequence of calls.
Count(cs, op) == Cardinality({i \in DOMAIN cs : cs[i].op = op})

\* The part of the state the bridge owns: reference, sockets, calls, and
\* the completion of the handler. Console text is output, not state.
Bridge(r) ==
    [appSocket |-> r.appSocket, sockets |-> r.sockets, calls |-> r.calls,
     exc |-> r.exc]

----------------------------------------------------------------------------
(* Properties. *)

\* The two most recent history entries, when there are two.
Prev == history[Len(history) - 1]
Cur == history[Len(history)]

\* A step that ran the handler of one of the given signal types.
Handled(types) ==
    /\ Len(history') = Len(history) + 1
    /\ history'[Len(history')].type \in types

\* C1: in the state right after a pagehide or freeze handler has run, the
\* reference is absent and no socket the script constructed is still open.
C1_NoHandleAfterHide ==
    last \in {"pagehide", "freeze"} => appSocket = NULL /\ OpenHandles = {}

\* A hide or freeze that followed a show or resume.
C1_Witness ==
    /\ Len(history) >= 2
    /\ Prev.type \in {"pageshow", "resume"}
    /\ Cur.type \in {"pagehide", "freeze"}
    /\ appSocket = NULL

\* C2: in the state right after a pageshow or resume handler has run,
\* exactly one open socket exists and the reference holds it.
C2_OneHandleAfterShow ==
    last \in {"pageshow", "resume"} =>
        appSocket # NULL /\ OpenHandles = {appSocket}

\* C3: at no time are two sockets constructed by the script open together.
C3_AtMostOneOpen == Cardinality(OpenHandles) <= 1

\* Two connect requests in a row have been handled.
C3_Witness ==
    /\ Len(history) >= 2
    /\ Prev.type \in {"pageshow", "resume"}
    /\ Cur.type \in {"pageshow", "resume"}
    /\ Cardinality(OpenHandles) <= 1

\* The signal types and payloads of the first n history entries.
Signals(n) == [i \in 1..n |-> <<history[i].type, history[i].persisted>>]

\* C4: the run pageshow(false), pagehide, pageshow(true) from the initial
\* state opens a socket, then closes it and clears the reference, then
\* opens a new one.
C4_Scenario ==
    \A p \in BOOLEAN :
        (Len(history) >= 3 /\ Signals(3) = <<<<"pageshow", FALSE>>,
                                             <<"pagehide", p>>,
                                             <<"pageshow", TRUE>>>>)
        => /\ Count(history[1].issued, "new") = 1
           /\ history[1].after # NULL
           /\ Count(history[2].issued, "close") = 1
           /\ history[2].after = NULL
           /\ Count(history[3].issued, "new") = 1
           /\ history[3].after # NULL
           /\ history[3].after # history[1].after

\* C5: two pageshow signals in a row construct exactly one socket between
\* them, and the second constructs none.
C5_ShowTwiceOneOpen ==
    (Len(history) >= 2 /\ Prev.type = "pageshow" /\ Cur.type = "pageshow")
    => /\ Count(Prev.issued, "new") + Count(Cur.issued, "new") = 1
       /\ Count(Cur.issued, "new") = 0

\* C7: a pagehide or freeze handled while the reference is absent issues
\* no call, throws nothing and leaves reference and sockets as they were.
C7_HideWithoutHandleIsNoOp ==
    [][(Handled({"pagehide", "freeze"}) /\ appSocket = NULL)
       => /\ calls' = calls
          /\ appSocket' = appSocket
          /\ sockets' = sockets
          /\ uncaught' = NoError]_vars

\* A freeze was handled with no handle held.
C7_Witness ==
    /\ last = "freeze"
    /\ Cur.before = NULL
    /\ Cur.issued = <<>>

\* C8: in every reachable state onFreeze leaves the same bridge state and
\* calls as onPageHide, and onResume the same as onPageShow(persisted=false).
C8_FreezeIsHideResumeIsShow ==
    /\ \A p \in BOOLEAN :
          Bridge(onFreeze(Entry)) = Bridge(onPageHide(Entry, [persisted |-> p]))
    /\ Bridge(onResume(Entry)) = Bridge(onPageShow(Entry, [persisted |-> FALSE]))

\* All four handlers have run at least once.
AllHandlersRan ==
    {history[i].type : i \in DOMAIN history}
        = {"pageshow", "pagehide", "freeze", "resume"}

C8_Witness == AllHandlersRan /\ last = "resume"

\* C9: the reference changes only from absent to present in a pageshow or
\* resume step, or from present to absent in a pagehide or freeze step.
C9_OnlyTwoMutationPaths ==
    [][appSocket' # appSocket
       => \/ /\ appSocket = NULL
             /\ Handled({"pageshow", "resume"})
          \/ /\ appSocket' = NULL
             /\ Handled({"pagehide", "freeze"})]_vars

\* A connect request was handled right after another handler.
C9_Witness ==
    /\ Len(history) >= 2
    /\ Cur.type \in {"pageshow", "resume"}
    /\ Cur.before = appSocket

\* C10: every delivered signal's handler has run to completion and none
\* let an exception escape.
C10_NeverThrows ==
    /\ uncaught = NoError
    /\ \A i \in DOMAIN history : history[i].exc = NoError

C10_Witness == AllHandlersRan /\ last = "pagehide" /\ uncaught = NoError

\* C11: the registered listeners are exactly pageshow and pagehide on the
\* window and freeze and resume on the document, one handler each, and
\* there is never an 'unload' or 'beforeunload' listener.
C11_ListenersExact ==
    /\ {<<l.target, l.type, l.handler>> : l \in listeners}
          = { <<"window", "pageshow", "onPageShow">>,
              <<"window", "pagehide", "onPageHide">>,
              <<"document", "freeze", "onFreeze">>,
              <<"document", "resume", "onResume">> }
    /\ \A ty \in {l.type : l \in listeners} :
          Cardinality({l \in listeners : l.type = ty}) = 1
    /\ \A l \in listeners : l.type \notin {"unload", "beforeunload"}

\* Every listener has been invoked and the registrations are still four.
C11_Witness ==
    /\ AllHandlersRan
    /\ last = "pageshow"
    /\ Cardinality(listeners) = 4

\* The handler the listeners bind to an event type (lines 126-131).
RunHandler(s, type, persisted) ==
    CASE type = "pageshow" -> onPageShow(s, [persisted |-> persisted])
      [] type = "pagehide" -> onPageHide(s, [persisted |-> persisted])
      [] type = "freeze"   -> onFreeze(s)
      [] type = "resume"   -> onResume(s)

\* The script state right after the IIFE has run (the state of Init).
Loaded ==
    [appSocket |-> NULL, sockets |-> <<>>, calls |-> <<>>,
     console |-> <<"Initialized with Page Lifecycle API support.">>,
     exc |-> NoError]

\* The script state after the first n signals of the history, delivered
\* with the persisted payloads f[1..n] instead of the recorded ones.
RECURSIVE Replay(_, _)
Replay(n, f) ==
    IF n = 0 THEN Loaded
    ELSE RunHandler([Replay(n - 1, f) EXCEPT !.exc = NoError],
                    history[n].type, f[n])

\* The state the run is in, as a script state.
Now == [Entry EXCEPT !.exc = uncaught]

\* C15: delivering the same signals with any other persisted payloads
\* ends with the same reference, sockets, calls and completion.
C15_PersistedIgnored ==
    \A f \in [1..Len(history) -> BOOLEAN] :
        Bridge(Replay(Len(history), f)) = Bridge(Now)

\* A pageshow and a pagehide were delivered with different payloads.
C15_Witness ==
    \E i, j \in DOMAIN history :
        /\ history[i].type = "pageshow" /\ history[i].persisted
        /\ history[j].type = "pagehide" /\ ~history[j].persisted
        /\ i < j

\* Replaying the recorded payloads gives the state the run is in.
ReplayIsRun ==
    Replay(Len(history), [i \in 1..Len(history) |-> history[i].persisted]) = Now

====
